---- MODULE Spec2Model ----
(***************************************************************************)
(* A model of the SudokuSolver class (src/SudokuSolver.cc): the constraint *)
(* tags, the logical (singles) pass and the recursive backtracking search, *)
(* run by the constructor on a caller-owned 9x9 matrix.                    *)
(***************************************************************************)
EXTENDS Integers, Sequences, FiniteSets, TLC

(* ---- program constants (SudokuSolver.cc:62-65) ---- *)
NUM == 9
ROW == 3
COL == 3
BLK == 3

(* ---- bounds of the model ---- *)
\* at most this many cells of HoleCells are blanked in a generated input
MaxHoles == 6

Idx == 0 .. (NUM - 1)
Digits == 1 .. NUM

(* A 9x9 matrix is a function row -> column -> value, as in m[i][j]. *)
RowsToMatrix(rows) == [i \in Idx |-> [j \in Idx |-> rows[i + 1][j + 1]]]

(* ---- input grids the constructor is run on ---- *)
EmptyGrid == [i \in Idx |-> [j \in Idx |-> 0]]

\* a solved grid; blanking the six PatternCells leaves exactly two completions
Solved ==
  RowsToMatrix(<< <<1,5,4,6,9,7,3,8,2>>,
                  <<8,3,2,1,5,4,9,6,7>>,
                  <<6,9,7,8,3,2,5,1,4>>,
                  <<7,6,9,4,1,8,2,3,5>>,
                  <<3,2,5,7,6,9,1,4,8>>,
                  <<4,1,8,3,2,5,6,7,9>>,
                  <<5,4,3,9,7,6,8,2,1>>,
                  <<2,8,1,5,4,3,7,9,6>>,
                  <<9,7,6,2,8,1,4,5,3>> >>)

\* the other completion of Solved with the six PatternCells blanked
SolvedAlt ==
  [Solved EXCEPT ![0][3] = 8, ![0][7] = 6, ![1][0] = 6,
                 ![1][7] = 8, ![2][0] = 8, ![2][3] = 6]

\* the completion of the empty grid that is least in row-major reading order
RowMajorLeast ==
  RowsToMatrix(<< <<1,2,3,4,5,6,7,8,9>>,
                  <<4,5,6,7,8,9,1,2,3>>,
                  <<7,8,9,1,2,3,4,5,6>>,
                  <<2,1,4,3,6,5,8,9,7>>,
                  <<3,6,5,8,9,7,2,1,4>>,
                  <<8,9,7,2,1,4,3,6,5>>,
                  <<5,3,1,6,4,2,9,7,8>>,
                  <<6,4,2,9,7,8,5,3,1>>,
                  <<9,7,8,5,3,1,6,4,2>> >>)

\* its transpose: the completion of the empty grid least in column-major order
ColMajorLeast == [i \in Idx |-> [j \in Idx |-> RowMajorLeast[j][i]]]

PatternCells == { <<0,3>>, <<0,7>>, <<1,0>>, <<1,7>>, <<2,0>>, <<2,3>> }
HoleCells == PatternCells \cup { <<4,4>> }

\* values a caller may leave in a cell it regards as empty
Garbage == { 0, 10, -1 }

Punch(g, H, v) ==
  [i \in Idx |-> [j \in Idx |-> IF <<i, j>> \in H THEN v ELSE g[i][j]]]

\* one given digit, (4,4) = 5
SingleClue == [EmptyGrid EXCEPT ![4][4] = 5]

\* givens without repetition and without completion: column 0 holds 1..8 in
\* rows 0..7 and 9 sits at (8,8), so nothing fits (8,0)
DeadColumn ==
  [i \in Idx |-> [j \in Idx |->
     IF j = 0 /\ i < 8 THEN i + 1 ELSE IF i = 8 /\ j = 8 THEN 9 ELSE 0]]

\* a repeated given: cell (8,8) repeats the digit of (8,7)
Repeat(g) == [g EXCEPT ![8][8] = g[8][7]]

\* Solved without its digits 2, 5 and 9, four of them kept: solveLogical
\* fills ten of the 23 empty cells and stops with 13 left
StalledDigits == { 2, 5, 9 }
StalledKept == { <<0,8>>, <<4,2>>, <<6,0>>, <<6,7>> }
Stalled ==
  [i \in Idx |-> [j \in Idx |->
     IF Solved[i][j] \in StalledDigits /\ << i, j >> \notin StalledKept
       THEN 0 ELSE Solved[i][j]]]

\* eight givens around the empty cell (0,0): 2, 3, 4 in its row, 5, 6, 7 in
\* its column, 8 and 9 in its block, so that 1 is the only digit it accepts,
\* while other empty cells of its row, column and block accept 1 as well
LoneCandidate ==
  [i \in Idx |-> [j \in Idx |->
     IF i = 0 /\ j \in 1 .. 3 THEN j + 1
     ELSE IF j = 0 /\ i \in 1 .. 3 THEN i + 4
     ELSE IF i = 1 /\ j = 1 THEN 8
     ELSE IF i = 2 /\ j = 2 THEN 9
     ELSE 0]]

HoleSets == { H \in SUBSET HoleCells : Cardinality(H) <= MaxHoles }

Inputs ==
  { EmptyGrid, SingleClue, DeadColumn, SolvedAlt, RowMajorLeast,
    ColMajorLeast, Stalled, LoneCandidate }
    \cup { Punch(Solved, H, v) : H \in HoleSets, v \in Garbage }
    \cup { Repeat(Punch(Solved, H, 0)) : H \in HoleSets }

(* ---- state ---- *)
VARIABLES
  inputMatrix,    \* the caller's array, passed by reference
  problemMatrix,  \* SudokuSolver::problemMatrix
  tagRow,         \* tagRow[i][n]: digit n+1 is in row i
  tagCol,         \* tagCol[n][j]: digit n+1 is in column j
  tagBlk,         \* tagBlk[b][n]: digit n+1 is in block b
  pc,             \* position of the constructor's control
  scan,           \* loop position of fillTags (k) and of solveLogical (k, l)
  flagValueSet,   \* solveLogical's flagValueSet
  args,           \* arguments <<i, j>> of the solveBacktrack call being entered
  stack,          \* active solveBacktrack calls, innermost last
  retval,         \* value returned by the call that just returned
  errOut,         \* lines written to cerr
  exitCode,       \* -1 while the process runs, else the status given to exit
  given,          \* history: the input as the caller passed it
  nPlace,         \* history: placements made by the two solving phases
  nRemove,        \* history: removals made by solveBacktrack
  iterBase,       \* history: nPlace when the current pass of the while loop began
  before,         \* history: tag tables and arguments before a place/unplace pair
  passGrid,       \* history: the matrix as solveLogical left it
  run,            \* history: 0 for a solve on its own, else first or second solve
  trace,          \* history: placements and removals of the solve, in order
  first,          \* history: how the first of two solves went and ended
  entries,        \* history: matrix and tables at the entry of each active call
  left            \* history: matrix and tables at the entry of the call that returned

vars == << inputMatrix, problemMatrix, tagRow, tagCol, tagBlk, pc, scan,
           flagValueSet, args, stack, retval, errOut, exitCode, given,
           nPlace, nRemove, iterBase, before, passGrid, run, trace, first,
           entries, left >>

NoTags == [a \in Idx |-> [b \in Idx |-> FALSE]]

(* ---- constraint tags ---- *)
Tags == [tagRow |-> tagRow, tagCol |-> tagCol, tagBlk |-> tagBlk]

BlockOf(i, j) == ((i \div BLK) * BLK) + (j \div BLK)

\* checkValid without the test of line 135: the block is not looked at
checkValidNoBlk(T, i, j, c) ==
  LET n == c - 1 IN
    IF T.tagRow[i][n] = TRUE THEN FALSE
    ELSE IF T.tagCol[n][j] = TRUE THEN FALSE
    ELSE TRUE

\* checkValid without the test of line 131: the row is not looked at
checkValidNoRow(T, i, j, c) ==
  LET n == c - 1 IN
    IF T.tagCol[n][j] = TRUE THEN FALSE
    ELSE IF T.tagBlk[BlockOf(i, j)][n] = TRUE THEN FALSE
    ELSE TRUE

\* checkValid(i, j, c) against the tag tables T
checkValidIn(T, i, j, c) ==
  LET n == c - 1 IN
    IF T.tagRow[i][n] = TRUE THEN FALSE
    ELSE IF T.tagCol[n][j] = TRUE THEN FALSE
    ELSE IF T.tagBlk[BlockOf(i, j)][n] = TRUE THEN FALSE
    ELSE TRUE

\* checkValid without the test of line 133: the column is not looked at
checkValidNoCol(i, j, c) ==
  LET n == c - 1 IN
    IF tagRow[i][n] = TRUE THEN FALSE
    ELSE IF tagBlk[BlockOf(i, j)][n] = TRUE THEN FALSE
    ELSE TRUE

checkValid(i, j, c) == checkValidIn(Tags, i, j, c)

\* assignTag without line 149: the column flag is not set
assignTagNoCol(T, i, j, n) ==
  IF n = 0 THEN T
  ELSE [tagRow |-> [T.tagRow EXCEPT ![i][n - 1] = TRUE],
        tagCol |-> T.tagCol,
        tagBlk |-> [T.tagBlk EXCEPT ![BlockOf(i, j)][n - 1] = TRUE]]

assignTag(T, i, j, n) ==
  IF n = 0 THEN T
  ELSE [tagRow |-> [T.tagRow EXCEPT ![i][n - 1] = TRUE],
        tagCol |-> [T.tagCol EXCEPT ![n - 1][j] = TRUE],
        tagBlk |-> [T.tagBlk EXCEPT ![BlockOf(i, j)][n - 1] = TRUE]]

\* resetTag without line 165: the block flag stays set
resetTagNoBlk(T, i, j, n) ==
  IF n = 0 THEN T
  ELSE [tagRow |-> [T.tagRow EXCEPT ![i][n - 1] = FALSE],
        tagCol |-> [T.tagCol EXCEPT ![n - 1][j] = FALSE],
        tagBlk |-> T.tagBlk]

resetTag(T, i, j, n) ==
  IF n = 0 THEN T
  ELSE [tagRow |-> [T.tagRow EXCEPT ![i][n - 1] = FALSE],
        tagCol |-> [T.tagCol EXCEPT ![n - 1][j] = FALSE],
        tagBlk |-> [T.tagBlk EXCEPT ![BlockOf(i, j)][n - 1] = FALSE]]

\* initTag
initTag == [tagRow |-> NoTags, tagCol |-> NoTags, tagBlk |-> NoTags]

\* initPuzzle
initPuzzle == [i \in Idx |-> [j \in Idx |-> 0]]

\* the copy loop with the upper test off by one: NUM itself is skipped
CopyInputDropNUM(in) ==
  [j \in Idx |-> [k \in Idx |->
     IF in[j][k] < 1 \/ in[j][k] > NUM - 1 THEN 0 ELSE in[j][k]]]

\* the copy loop without the upper test: only values below 1 are skipped
CopyInputNoUpper(in) ==
  [j \in Idx |-> [k \in Idx |-> IF in[j][k] < 1 THEN 0 ELSE in[j][k]]]

\* the constructor's copy loop: values outside 1..NUM are skipped
CopyInput(in) ==
  [j \in Idx |-> [k \in Idx |->
     IF in[j][k] < 1 \/ in[j][k] > NUM THEN initPuzzle[j][k] ELSE in[j][k]]]

\* the inner loop of fillTags stopping one column early, j < NUM - 1
fillTagsRowShort(T, pm, i) ==
  LET after[n \in 0 .. NUM] ==
        IF n = 0 THEN T ELSE assignTag(after[n - 1], i, n - 1, pm[i][n - 1])
  IN after[NUM - 1]

\* one pass of the inner loop of fillTags (line 119-120) for row i:
\* assignTag(i, j, pm[i][j]) for j = 0 .. 8, starting from the tables T
fillTagsRow(T, pm, i) ==
  LET after[n \in 0 .. NUM] ==
        IF n = 0 THEN T ELSE assignTag(after[n - 1], i, n - 1, pm[i][n - 1])
  IN after[NUM]

\* no place/unplace pair is under observation
NoProbe == [tags |-> initTag, i |-> 0, j |-> 0, n |-> 0]

\* matrix and tables as they are
Snapshot == [grid |-> problemMatrix, tags |-> Tags]

\* no call has returned
NoEntry == [grid |-> initPuzzle, tags |-> initTag]

\* no solve has gone before
NoFirst == [solved |-> FALSE, grid |-> initPuzzle, trace |-> << >>,
            errOut |-> << >>, exitCode |-> -1]

\* the histories of placements, removals and call entries are kept where two
\* solves are compared (run 1 and run 2), not for a solve on its own (run 0)
Recording == run > 0

\* the trace with the event ev added
Recorded(ev) == IF Recording THEN Append(trace, ev) ELSE trace

\* a call of solveBacktrack is entered: matrix and tables are noted
Entered == IF Recording THEN Append(entries, Snapshot) ELSE entries

\* the innermost call returns: its note is taken off and kept in left
Returned ==
  /\ entries' = IF Recording THEN SubSeq(entries, 1, Len(entries) - 1)
                ELSE entries
  /\ left' = IF Recording THEN entries[Len(entries)] ELSE left

\* the constructor is entered with the caller's matrix; the fields are not
\* read before Construct has written them, so their values here do not matter
Init ==
  /\ inputMatrix \in Inputs
  /\ given = inputMatrix
  /\ problemMatrix = initPuzzle
  /\ tagRow = NoTags
  /\ tagCol = NoTags
  /\ tagBlk = NoTags
  /\ pc = "construct"
  /\ scan = [phase |-> "blk", k |-> 0, l |-> 1]
  /\ flagValueSet = FALSE
  /\ args = << 0, 0 >>
  /\ stack = << >>
  /\ retval = FALSE
  /\ errOut = << >>
  /\ exitCode = -1
  /\ nPlace = 0
  /\ nRemove = 0
  /\ iterBase = 0
  /\ before = NoProbe
  /\ passGrid = initPuzzle
  /\ run = 0
  /\ trace = << >>
  /\ first = NoFirst
  /\ entries = << >>
  /\ left = NoEntry

\* the constructor without initPuzzle (line 67): a cell the copy loop skips
\* keeps what the matrix held
ConstructNoInitPuzzle ==
  /\ pc = "construct"
  /\ problemMatrix' =
       [j \in Idx |-> [k \in Idx |->
          IF inputMatrix[j][k] < 1 \/ inputMatrix[j][k] > NUM
            THEN problemMatrix[j][k] ELSE inputMatrix[j][k]]]
  /\ tagRow' = initTag.tagRow
  /\ tagCol' = initTag.tagCol
  /\ tagBlk' = initTag.tagBlk
  /\ pc' = "fillTags"
  /\ scan' = [phase |-> "fill", k |-> 0, l |-> 1]
  /\ UNCHANGED << inputMatrix, flagValueSet, args, stack, retval, errOut,
                  exitCode, given, iterBase, before, nPlace, nRemove, passGrid,
                  run, trace, first, entries, left >>

\* constructor, lines 62-74: initTag, initPuzzle and the copy loop
Construct ==
  /\ pc = "construct"
  /\ problemMatrix' = CopyInput(inputMatrix)
  /\ tagRow' = initTag.tagRow
  /\ tagCol' = initTag.tagCol
  /\ tagBlk' = initTag.tagBlk
  /\ pc' = "fillTags"
  /\ scan' = [phase |-> "fill", k |-> 0, l |-> 1]
  /\ UNCHANGED << inputMatrix, flagValueSet, args, stack, retval, errOut,
                  exitCode, given, iterBase, before, nPlace, nRemove, passGrid,
                  run, trace, first, entries, left >>

\* fillTags (lines 117-121), one row i of the outer loop per step; after the
\* last row solvePuzzle enters solveLogical (lines 188-192)
FillTags ==
  /\ pc = "fillTags"
  /\ LET T == fillTagsRow(Tags, problemMatrix, scan.k) IN
       /\ tagRow' = T.tagRow
       /\ tagCol' = T.tagCol
       /\ tagBlk' = T.tagBlk
  /\ IF scan.k < NUM - 1
       THEN /\ scan' = [scan EXCEPT !.k = scan.k + 1]
            /\ UNCHANGED << pc, flagValueSet >>
       ELSE /\ scan' = [phase |-> "blk", k |-> 0, l |-> 1]
            /\ pc' = "logical"
            /\ flagValueSet' = FALSE
  /\ UNCHANGED << inputMatrix, problemMatrix, args, stack, retval, errOut,
                  exitCode, given, iterBase, before, nPlace, nRemove, passGrid,
                  run, trace, first, entries, left >>

(* ---- solveLogical ---- *)
\* cells of block k in the order of the loops of lines 197-198
BlockCellSeq(k) ==
  [n \in 1 .. (COL * ROW) |->
     << ((k \div COL) * COL) + ((n - 1) \div ROW),
        ((k % COL) * ROW) + ((n - 1) % ROW) >>]

\* cells visited by the loop of lines 225-237: (i, j) for j = 0 .. 8
LineCellSeq(i) == [n \in 1 .. NUM |-> << i, n - 1 >>]

\* cells visited by the loop of lines 249-261: (j, i) for j = 0 .. 8
CrossCellSeq(i) == [n \in 1 .. NUM |-> << n - 1, i >>]

\* the innermost loops without the "continue" of lines 199-200, 226-227 and
\* 250-251: filled cells are examined like empty ones
RECURSIVE ScanCellsNoSkip(_, _, _, _, _)
ScanCellsNoSkip(cells, l, n, cnt, rc) ==
  IF n > Len(cells) THEN [cnt |-> cnt, rc |-> rc]
  ELSE LET i == cells[n][1]
           j == cells[n][2]
           ok == checkValidIn([tagRow |-> tagRow, tagCol |-> tagCol,
                               tagBlk |-> tagBlk], i, j, l)
           cnt2 == IF ok THEN cnt + 1 ELSE cnt
           rc2 == IF ok THEN << i, j >> ELSE rc
       IN IF cnt2 > 1 THEN [cnt |-> cnt2, rc |-> rc2]
          ELSE ScanCellsNoSkip(cells, l, n + 1, cnt2, rc2)

\* one run of the innermost loops for digit l over the cells from position n
\* on: filled cells are skipped, each empty cell that checkValid accepts is
\* remembered in row/col and counted, and the loops are left once cnt > 1
\* (flagNotSingle only carries that break out of the two block loops)
RECURSIVE ScanCells(_, _, _, _, _)
ScanCells(cells, l, n, cnt, rc) ==
  IF n > Len(cells) THEN [cnt |-> cnt, rc |-> rc]
  ELSE LET i == cells[n][1]
           j == cells[n][2]
       IN IF problemMatrix[i][j] > 0
            THEN ScanCells(cells, l, n + 1, cnt, rc)
            ELSE LET ok == checkValid(i, j, l)
                     cnt2 == IF ok THEN cnt + 1 ELSE cnt
                     rc2 == IF ok THEN << i, j >> ELSE rc
                 IN IF cnt2 > 1 THEN [cnt |-> cnt2, rc |-> rc2]
                    ELSE ScanCells(cells, l, n + 1, cnt2, rc2)

\* the block loop with the test of the line loops, l < NUM
BlkLastDigitShort == NUM - 1
\* the last digit the block loop examines (line 194: l < NUM+1)
BlkLastDigit == NUM
\* the last digit the two line loops examine (lines 223, 247: l < NUM)
LineLastDigit == NUM - 1

\* the commitment without the test for a single cell: the digit goes to the
\* last cell found whenever any cell accepts it
ScanAndCommitAny(cells, l) ==
  LET r == ScanCells(cells, l, 1, 0, << 0, 0 >>) IN
    IF r.cnt >= 1
      THEN LET T == assignTag(Tags, r.rc[1], r.rc[2], l) IN
             /\ problemMatrix' = [problemMatrix EXCEPT ![r.rc[1]][r.rc[2]] = l]
             /\ tagRow' = T.tagRow
             /\ tagCol' = T.tagCol
             /\ tagBlk' = T.tagBlk
             /\ flagValueSet' = TRUE
             /\ nPlace' = nPlace + 1
             /\ trace' = Recorded(<< "place", r.rc[1], r.rc[2], l >>)
      ELSE UNCHANGED << problemMatrix, tagRow, tagCol, tagBlk, flagValueSet,
                        nPlace, trace >>

\* lines 214-218, 238-242, 262-266: a count of exactly one is committed
ScanAndCommit(cells, l) ==
  LET r == ScanCells(cells, l, 1, 0, << 0, 0 >>) IN
    IF r.cnt = 1
      THEN LET T == assignTag(Tags, r.rc[1], r.rc[2], l) IN
             /\ problemMatrix' = [problemMatrix EXCEPT ![r.rc[1]][r.rc[2]] = l]
             /\ tagRow' = T.tagRow
             /\ tagCol' = T.tagCol
             /\ tagBlk' = T.tagBlk
             /\ flagValueSet' = TRUE
             /\ nPlace' = nPlace + 1
             /\ trace' = Recorded(<< "place", r.rc[1], r.rc[2], l >>)
      ELSE UNCHANGED << problemMatrix, tagRow, tagCol, tagBlk, flagValueSet,
                        nPlace, trace >>

\* position after digit l of group k in a phase whose last digit is last
NextScan(phase, k, l, last, nextPhase) ==
  IF l < last THEN [phase |-> phase, k |-> k, l |-> l + 1]
  ELSE IF k < NUM - 1 THEN [phase |-> phase, k |-> k + 1, l |-> 1]
  ELSE [phase |-> nextPhase, k |-> 0, l |-> 1]

\* lines 193-220: block k, digit l
LogicalBlock ==
  /\ pc = "logical"
  /\ scan.phase = "blk"
  /\ ScanAndCommit(BlockCellSeq(scan.k), scan.l)
  /\ scan' = NextScan("blk", scan.k, scan.l, BlkLastDigit, "line")
  /\ UNCHANGED << inputMatrix, pc, args, stack, retval, errOut, exitCode,
                  given, iterBase, before, nRemove, passGrid, run, first,
                  entries, left >>

\* lines 222-244 ("check all columns"): cells (i, j) over j, digit l
LogicalLine ==
  /\ pc = "logical"
  /\ scan.phase = "line"
  /\ ScanAndCommit(LineCellSeq(scan.k), scan.l)
  /\ scan' = NextScan("line", scan.k, scan.l, LineLastDigit, "cross")
  /\ UNCHANGED << inputMatrix, pc, args, stack, retval, errOut, exitCode,
                  given, iterBase, before, nRemove, passGrid, run, first,
                  entries, left >>

\* lines 246-268 ("check all rows"): cells (j, i) over j, digit l
LogicalCross ==
  /\ pc = "logical"
  /\ scan.phase = "cross"
  /\ ScanAndCommit(CrossCellSeq(scan.k), scan.l)
  /\ scan' = NextScan("cross", scan.k, scan.l, LineLastDigit, "test")
  /\ UNCHANGED << inputMatrix, pc, args, stack, retval, errOut, exitCode,
                  given, iterBase, before, nRemove, passGrid, run, first,
                  entries, left >>

\* the loop without line 192: flagValueSet is never cleared
LogicalRepeatNoClear ==
  /\ pc = "logical"
  /\ scan.phase = "test"
  /\ flagValueSet
  /\ iterBase' = nPlace
  /\ scan' = [phase |-> "blk", k |-> 0, l |-> 1]
  /\ UNCHANGED << inputMatrix, problemMatrix, tagRow, tagCol, tagBlk, pc,
                  flagValueSet, args, stack, retval, errOut, exitCode, given,
                  before, nPlace, nRemove, passGrid, run, trace, first,
                  entries, left >>

\* line 191-192: an assignment was made, so the while loop runs again
LogicalRepeat ==
  /\ pc = "logical"
  /\ scan.phase = "test"
  /\ flagValueSet
  /\ flagValueSet' = FALSE
  /\ iterBase' = nPlace
  /\ scan' = [phase |-> "blk", k |-> 0, l |-> 1]
  /\ UNCHANGED << inputMatrix, problemMatrix, tagRow, tagCol, tagBlk, pc, args,
                  stack, retval, errOut, exitCode, given, before, nPlace,
                  nRemove, passGrid, run, trace, first, entries, left >>

\* lines 269-270 and 176: no assignment was made; solveLogical returns and
\* solvePuzzle calls solveBacktrack (0, 0, problemMatrix)
LogicalBreak ==
  /\ pc = "logical"
  /\ scan.phase = "test"
  /\ ~flagValueSet
  /\ pc' = "call"
  /\ args' = << 0, 0 >>
  /\ passGrid' = problemMatrix
  /\ UNCHANGED << inputMatrix, problemMatrix, tagRow, tagCol, tagBlk, scan,
                  flagValueSet, stack, retval, errOut, exitCode, given,
                  iterBase, before, nPlace, nRemove, run, trace, first,
                  entries, left >>

(* ---- solveBacktrack ---- *)
\* the indices taken the other way round, proMat[j][i]
BtCellSwapped(i, j) == << j, i >>

\* the cell a call with arguments (i, j) addresses: proMat[i][j], first index
\* the row, second the column
BtCell(i, j) == << i, j >>

\* lines 292-296: the arguments after the wrap at i == NUM
Wrapped(a) == IF a[1] = NUM THEN << 0, a[2] + 1 >> ELSE a

\* line 294-295: the wrap carried j to NUM
PastLastCell(a) == a[1] = NUM /\ a[2] + 1 = NUM

Top == stack[Len(stack)]
Pop == SubSeq(stack, 1, Len(stack) - 1)
TopCell == BtCell(Top.i, Top.j)

\* lines 292-295: the final cell was passed, the call returns true
BtSolved ==
  /\ pc = "call"
  /\ PastLastCell(args)
  /\ pc' = "ret"
  /\ retval' = TRUE
  /\ UNCHANGED << inputMatrix, problemMatrix, tagRow, tagCol, tagBlk, scan,
                  flagValueSet, args, stack, errOut, exitCode, given, iterBase,
                  before, nPlace, nRemove, passGrid, run, trace, first,
                  entries, left >>

\* lines 297-298: a filled cell is skipped by a call for (i + 1, j) whose
\* result is returned as it is
BtSkip ==
  /\ pc = "call"
  /\ ~PastLastCell(args)
  /\ LET w == Wrapped(args)
         c == BtCell(w[1], w[2])
     IN /\ problemMatrix[c[1]][c[2]] > 0
        /\ stack' = Append(stack, [i |-> w[1], j |-> w[2], val |-> 0,
                                   guess |-> FALSE])
        /\ args' = << w[1] + 1, w[2] >>
  /\ entries' = Entered
  /\ UNCHANGED << inputMatrix, problemMatrix, tagRow, tagCol, tagBlk, pc, scan,
                  flagValueSet, retval, errOut, exitCode, given, iterBase,
                  before, nPlace, nRemove, passGrid, run, trace, first, left >>

\* line 300: an empty cell starts the loop over val at 1
BtGuess ==
  /\ pc = "call"
  /\ ~PastLastCell(args)
  /\ LET w == Wrapped(args)
         c == BtCell(w[1], w[2])
     IN /\ ~(problemMatrix[c[1]][c[2]] > 0)
        /\ stack' = Append(stack, [i |-> w[1], j |-> w[2], val |-> 1,
                                   guess |-> TRUE])
  /\ pc' = "loop"
  /\ entries' = Entered
  /\ UNCHANGED << inputMatrix, problemMatrix, tagRow, tagCol, tagBlk, scan,
                  flagValueSet, args, retval, errOut, exitCode, given,
                  iterBase, before, nPlace, nRemove, passGrid, run, trace,
                  first, left >>

\* lines 301-304: val is legal; it is written, tagged, and the next cell called
BtPlace ==
  /\ pc = "loop"
  /\ Top.val <= NUM
  /\ checkValid(TopCell[1], TopCell[2], Top.val)
  /\ LET T == assignTag(Tags, TopCell[1], TopCell[2], Top.val) IN
       /\ problemMatrix' =
            [problemMatrix EXCEPT ![TopCell[1]][TopCell[2]] = Top.val]
       /\ tagRow' = T.tagRow
       /\ tagCol' = T.tagCol
       /\ tagBlk' = T.tagBlk
  /\ args' = << Top.i + 1, Top.j >>
  /\ pc' = "call"
  /\ nPlace' = nPlace + 1
  /\ trace' = Recorded(<< "place", TopCell[1], TopCell[2], Top.val >>)
  /\ UNCHANGED << inputMatrix, scan, flagValueSet, stack, retval, errOut,
                  exitCode, given, iterBase, before, nRemove, passGrid, run,
                  first, entries, left >>

\* lines 300-301: val is not legal, the loop goes on to val + 1
BtReject ==
  /\ pc = "loop"
  /\ Top.val <= NUM
  /\ ~checkValid(TopCell[1], TopCell[2], Top.val)
  /\ stack' = [stack EXCEPT ![Len(stack)].val = Top.val + 1]
  /\ UNCHANGED << inputMatrix, problemMatrix, tagRow, tagCol, tagBlk, pc, scan,
                  flagValueSet, args, retval, errOut, exitCode, given,
                  iterBase, before, nPlace, nRemove, passGrid, run, trace,
                  first, entries, left >>

\* lines 304-307: the call for the next cell returned false; the tags of the
\* value in the cell are reset and the loop goes on to val + 1
BtUndo ==
  /\ pc = "ret"
  /\ stack # << >>
  /\ Top.guess
  /\ ~retval
  /\ LET T == resetTag(Tags, TopCell[1], TopCell[2],
                       problemMatrix[TopCell[1]][TopCell[2]])
     IN /\ tagRow' = T.tagRow
        /\ tagCol' = T.tagCol
        /\ tagBlk' = T.tagBlk
  /\ stack' = [stack EXCEPT ![Len(stack)].val = Top.val + 1]
  /\ pc' = "loop"
  /\ nRemove' = nRemove + 1
  /\ trace' = Recorded(<< "resetTag", TopCell[1], TopCell[2],
                          problemMatrix[TopCell[1]][TopCell[2]] >>)
  /\ UNCHANGED << inputMatrix, problemMatrix, scan, flagValueSet, args, retval,
                  errOut, exitCode, given, iterBase, before, nPlace, passGrid,
                  run, first, entries, left >>

\* the dead end without line 311: the cell keeps the digit tried last
BtDeadEndKeepsCell ==
  /\ pc = "loop"
  /\ Top.val > NUM
  /\ LET T == resetTag(Tags, TopCell[1], TopCell[2],
                       problemMatrix[TopCell[1]][TopCell[2]])
     IN /\ tagRow' = T.tagRow
        /\ tagCol' = T.tagCol
        /\ tagBlk' = T.tagBlk
  /\ stack' = Pop
  /\ retval' = FALSE
  /\ pc' = "ret"
  /\ trace' = Recorded(<< "empty", TopCell[1], TopCell[2],
                          problemMatrix[TopCell[1]][TopCell[2]] >>)
  /\ Returned
  /\ UNCHANGED << inputMatrix, problemMatrix, scan, flagValueSet, args,
                  errOut, exitCode, given, iterBase, before, nPlace, nRemove,
                  passGrid, run, first >>

\* lines 310-312: the loop is over; tags and cell are reset, false is returned
BtDeadEnd ==
  /\ pc = "loop"
  /\ Top.val > NUM
  /\ LET T == resetTag(Tags, TopCell[1], TopCell[2],
                       problemMatrix[TopCell[1]][TopCell[2]])
     IN /\ tagRow' = T.tagRow
        /\ tagCol' = T.tagCol
        /\ tagBlk' = T.tagBlk
  /\ problemMatrix' = [problemMatrix EXCEPT ![TopCell[1]][TopCell[2]] = 0]
  /\ stack' = Pop
  /\ retval' = FALSE
  /\ pc' = "ret"
  /\ trace' = Recorded(<< "empty", TopCell[1], TopCell[2],
                          problemMatrix[TopCell[1]][TopCell[2]] >>)
  /\ Returned
  /\ UNCHANGED << inputMatrix, scan, flagValueSet, args, errOut, exitCode,
                  given, iterBase, before, nPlace, nRemove, passGrid, run,
                  first >>

\* line 298: the skipping call returns what its callee returned
BtReturnSkip ==
  /\ pc = "ret"
  /\ stack # << >>
  /\ ~Top.guess
  /\ stack' = Pop
  /\ Returned
  /\ UNCHANGED << inputMatrix, problemMatrix, tagRow, tagCol, tagBlk, pc, scan,
                  flagValueSet, args, retval, errOut, exitCode, given,
                  iterBase, before, nPlace, nRemove, passGrid, run, trace,
                  first >>

\* lines 304-305: the call for the next cell returned true, so does this one
BtReturnTrue ==
  /\ pc = "ret"
  /\ stack # << >>
  /\ Top.guess
  /\ retval
  /\ stack' = Pop
  /\ Returned
  /\ UNCHANGED << inputMatrix, problemMatrix, tagRow, tagCol, tagBlk, pc, scan,
                  flagValueSet, args, retval, errOut, exitCode, given,
                  iterBase, before, nPlace, nRemove, passGrid, run, trace,
                  first >>

(* ---- the constructor's ending, lines 76-84 ---- *)
ErrorLine == "Error: Puzzle cannot  be solved."

\* lines 76-80: solvePuzzle returned true; the matrix is written back
ReportSolved ==
  /\ pc = "ret"
  /\ stack = << >>
  /\ retval
  /\ inputMatrix' = [j \in Idx |-> [k \in Idx |-> problemMatrix[j][k]]]
  /\ pc' = "done"
  /\ UNCHANGED << problemMatrix, tagRow, tagCol, tagBlk, scan, flagValueSet,
                  args, stack, retval, errOut, exitCode, given, iterBase,
                  before, nPlace, nRemove, passGrid, run, trace, first,
                  entries, left >>

\* the failure branch returning to the caller: nothing written, no exit
ReportUnsolvableQuietly ==
  /\ pc = "ret"
  /\ stack = << >>
  /\ ~retval
  /\ pc' = "exited"
  /\ UNCHANGED << inputMatrix, problemMatrix, tagRow, tagCol, tagBlk, scan,
                  flagValueSet, args, stack, retval, errOut, exitCode, given,
                  iterBase, before, nPlace, nRemove, passGrid, run, trace,
                  first, entries, left >>

\* lines 81-84: solvePuzzle returned false; a line goes to cerr and exit (1)
\* ends the process, the caller's matrix untouched
ReportUnsolvable ==
  /\ pc = "ret"
  /\ stack = << >>
  /\ ~retval
  /\ errOut' = Append(errOut, ErrorLine)
  /\ exitCode' = 1
  /\ pc' = "exited"
  /\ UNCHANGED << inputMatrix, problemMatrix, tagRow, tagCol, tagBlk, scan,
                  flagValueSet, args, stack, retval, given, iterBase, before,
                  nPlace, nRemove, passGrid, run, trace, first, entries, left >>

Next ==
  \/ Construct
  \/ FillTags
  \/ LogicalBlock
  \/ LogicalLine
  \/ LogicalCross
  \/ LogicalRepeat
  \/ LogicalBreak
  \/ BtSolved
  \/ BtSkip
  \/ BtGuess
  \/ BtPlace
  \/ BtReject
  \/ BtUndo
  \/ BtDeadEnd
  \/ BtReturnSkip
  \/ BtReturnTrue
  \/ ReportSolved
  \/ ReportUnsolvable

Spec == Init /\ [][Next]_vars

\* at most this many cells are blanked in an input of the fair specification
MaxFairHoles == 1

FairHoleSets ==
  { G \in SUBSET PatternCells : Cardinality(G) <= MaxFairHoles }

FairInputs ==
  { SingleClue, DeadColumn, Punch(Solved, PatternCells, 0), Repeat(Solved),
    Repeat(Punch(Solved, PatternCells, 0)) }
    \cup { Punch(Solved, H, v) : H \in FairHoleSets, v \in { 0, 10 } }

\* the constructor is one sequential call: it keeps running until it ends;
\* the inputs are a part of Inputs
FairInit == Init /\ inputMatrix \in FairInputs

FairSpec == FairInit /\ [][Next]_vars /\ WF_vars(Next)

Finished == pc \in { "done", "exited" }

(* ---- the same input solved twice ---- *)
\* at most this many cells are blanked in a punched input that is solved twice
MaxTwiceHoles == 1

TwiceHoleSets ==
  { G \in SUBSET PatternCells : Cardinality(G) <= MaxTwiceHoles }

TwiceInputs ==
  { SingleClue, Stalled, DeadColumn, Punch(Solved, PatternCells, 0),
    Punch(Solved, PatternCells, 10), Repeat(Punch(Solved, PatternCells, 0)) }
    \cup { Punch(Solved, H, v) : H \in TwiceHoleSets, v \in { 0, 10 } }

\* the first solve is entered; the histories of the solve are kept
TwiceInit ==
  /\ inputMatrix \in TwiceInputs
  /\ given = inputMatrix
  /\ problemMatrix = initPuzzle
  /\ tagRow = NoTags
  /\ tagCol = NoTags
  /\ tagBlk = NoTags
  /\ pc = "construct"
  /\ scan = [phase |-> "blk", k |-> 0, l |-> 1]
  /\ flagValueSet = FALSE
  /\ args = << 0, 0 >>
  /\ stack = << >>
  /\ retval = FALSE
  /\ errOut = << >>
  /\ exitCode = -1
  /\ nPlace = 0
  /\ nRemove = 0
  /\ iterBase = 0
  /\ before = NoProbe
  /\ passGrid = initPuzzle
  /\ run = 1
  /\ trace = << >>
  /\ first = NoFirst
  /\ entries = << >>
  /\ left = NoEntry

\* how the solve that is over went and ended
Ending ==
  [solved |-> pc = "done", grid |-> inputMatrix, trace |-> trace,
   errOut |-> errOut, exitCode |-> exitCode]

\* a second SudokuSolver is constructed on a copy of the same input, in the
\* same process after a success and in a new one after exit (1); its fields
\* are not initialized before the constructor runs, so they hold what the
\* first solve left in them
SolveAgain ==
  /\ Finished
  /\ run = 1
  /\ first' = Ending
  /\ run' = 2
  /\ inputMatrix' = given
  /\ pc' = "construct"
  /\ errOut' = << >>
  /\ exitCode' = -1
  /\ trace' = << >>
  /\ nPlace' = 0
  /\ nRemove' = 0
  /\ iterBase' = 0
  /\ passGrid' = initPuzzle
  /\ entries' = << >>
  /\ left' = NoEntry
  /\ UNCHANGED << problemMatrix, tagRow, tagCol, tagBlk, scan, flagValueSet,
                  args, stack, retval, given, before >>

TwiceNext == Next \/ SolveAgain

TwiceSpec == TwiceInit /\ [][TwiceNext]_vars

(* ---- place / unplace on their own ---- *)
\* at most this many digits are on the grid, and so in the tables, when the
\* pair is made
MaxPlaced == 2

\* digits that may be on the grid: << row, column, digit >>
TrackerGivens == { << 0, 0, 1 >>, << 4, 4, 5 >>, << 0, 4, 2 >>, << 8, 0, 1 >> }

\* the tables after assignTag for each member of P, from initTag
PlacedTags(P) ==
  LET RECURSIVE place(_, _)
      place(T, Q) ==
        IF Q = {} THEN T
        ELSE LET q == CHOOSE x \in Q : TRUE IN
               place(assignTag(T, q[1], q[2], q[3]), Q \ { q })
  IN place(initTag, P)

TrackerStates ==
  { PlacedTags(P) :
      P \in { Q \in SUBSET TrackerGivens : Cardinality(Q) <= MaxPlaced } }

TrackerInit ==
  /\ \E T \in TrackerStates :
       tagRow = T.tagRow /\ tagCol = T.tagCol /\ tagBlk = T.tagBlk
  /\ pc = "idle"
  /\ inputMatrix = EmptyGrid
  /\ given = EmptyGrid
  /\ problemMatrix = initPuzzle
  /\ scan = [phase |-> "blk", k |-> 0, l |-> 1]
  /\ flagValueSet = FALSE
  /\ args = << 0, 0 >>
  /\ stack = << >>
  /\ retval = FALSE
  /\ errOut = << >>
  /\ exitCode = -1
  /\ nPlace = 0
  /\ nRemove = 0
  /\ iterBase = 0
  /\ before = NoProbe
  /\ passGrid = initPuzzle
  /\ run = 0
  /\ trace = << >>
  /\ first = NoFirst
  /\ entries = << >>
  /\ left = NoEntry

\* assignTag (i, j, n) on the tables as they are
TrackerPlace ==
  /\ pc = "idle"
  /\ \E i \in Idx, j \in Idx, n \in Digits :
       /\ before' = [tags |-> Tags, i |-> i, j |-> j, n |-> n]
       /\ LET T == assignTag(Tags, i, j, n) IN
            /\ tagRow' = T.tagRow
            /\ tagCol' = T.tagCol
            /\ tagBlk' = T.tagBlk
  /\ pc' = "placed"
  /\ UNCHANGED << inputMatrix, problemMatrix, scan, flagValueSet, args, stack,
                  retval, errOut, exitCode, given, nPlace, nRemove, iterBase,
                  passGrid, run, trace, first, entries, left >>

\* resetTag with the arguments of the assignTag just made
TrackerUnplace ==
  /\ pc = "placed"
  /\ LET T == resetTag(Tags, before.i, before.j, before.n) IN
       /\ tagRow' = T.tagRow
       /\ tagCol' = T.tagCol
       /\ tagBlk' = T.tagBlk
  /\ pc' = "unplaced"
  /\ UNCHANGED << inputMatrix, problemMatrix, scan, flagValueSet, args, stack,
                  retval, errOut, exitCode, given, nPlace, nRemove, iterBase,
                  before, passGrid, run, trace, first, entries, left >>

TrackerNext == TrackerPlace \/ TrackerUnplace

TrackerSpec == TrackerInit /\ [][TrackerNext]_vars

(* ---- what a Sudoku grid and its completions are ---- *)
Cells == Idx \X Idx

\* two different cells of one row, one column or one block
Peers(a, b) ==
  /\ a # b
  /\ \/ a[1] = b[1]
     \/ a[2] = b[2]
     \/ (a[1] \div BLK = b[1] \div BLK /\ a[2] \div BLK = b[2] \div BLK)

\* the input as the solver is to read it: digits kept, anything else empty
Norm(g) == [i \in Idx |-> [j \in Idx |-> IF g[i][j] \in Digits THEN g[i][j] ELSE 0]]

\* the given digits of g repeat in no row, column or block
WellFormed(g) ==
  \A a \in Cells, b \in Cells :
    (Peers(a, b) /\ g[a[1]][a[2]] \in Digits) => g[a[1]][a[2]] # g[b[1]][b[2]]

\* every cell holds a digit and each row, column and block holds each digit once
ValidGrid(g) ==
  /\ \A c \in Cells : g[c[1]][c[2]] \in Digits
  /\ \A i \in Idx, d \in Digits :
       /\ Cardinality({ j \in Idx : g[i][j] = d }) = 1
       /\ Cardinality({ j \in Idx : g[j][i] = d }) = 1
       /\ Cardinality({ c \in Cells : BlockOf(c[1], c[2]) = i
                                       /\ g[c[1]][c[2]] = d }) = 1

\* s keeps every given digit of g
Extends(s, g) ==
  \A c \in Cells : g[c[1]][c[2]] \in Digits => s[c[1]][c[2]] = g[c[1]][c[2]]

EmptyCells(g) == { c \in Cells : g[c[1]][c[2]] \notin Digits }

\* d is held by no peer of cell c in g
GridLegal(g, c, d) == \A b \in Cells : Peers(c, b) => g[b[1]][b[2]] # d

\* an empty cell that no digit fits: g has no completion
DeadCell(g) == \E c \in EmptyCells(g) : \A d \in Digits : ~GridLegal(g, c, d)

\* the grid g with digit d in cell c
Filled(g, c, d) ==
  [i \in Idx |-> [j \in Idx |-> IF << i, j >> = c THEN d ELSE g[i][j]]]

\* all valid completions of g, by filling its empty cells one after another
RECURSIVE AllCompletions(_)
AllCompletions(g) ==
  IF EmptyCells(g) = {} THEN (IF ValidGrid(g) THEN { g } ELSE {})
  ELSE LET c == CHOOSE e \in EmptyCells(g) : TRUE IN
         UNION { AllCompletions(Filled(g, c, d)) :
                   d \in { e \in Digits : GridLegal(g, c, e) } }

\* a completion of SingleClue
SingleClueCompletion ==
  RowsToMatrix(<< <<1,4,7,2,3,5,6,8,9>>,
                  <<2,5,8,1,6,9,3,4,7>>,
                  <<3,6,9,4,7,8,1,2,5>>,
                  <<4,7,1,3,9,2,5,6,8>>,
                  <<6,8,2,7,5,1,9,3,4>>,
                  <<5,9,3,6,8,4,7,1,2>>,
                  <<7,1,4,5,2,3,8,9,6>>,
                  <<8,2,5,9,1,6,4,7,3>>,
                  <<9,3,6,8,4,7,2,5,1>> >>)

\* a completion of LoneCandidate
LoneCandidateCompletion ==
  RowsToMatrix(<< <<1,2,3,4,5,6,7,8,9>>,
                  <<5,8,7,1,3,9,2,6,4>>,
                  <<6,4,9,2,7,8,3,5,1>>,
                  <<7,1,4,3,8,2,5,9,6>>,
                  <<2,5,6,7,9,1,8,4,3>>,
                  <<3,9,8,5,6,4,1,2,7>>,
                  <<4,3,1,6,2,5,9,7,8>>,
                  <<8,6,2,9,1,7,4,3,5>>,
                  <<9,7,5,8,4,3,6,1,2>> >>)

KnownGrids ==
  { Solved, SolvedAlt, RowMajorLeast, ColMajorLeast, SingleClueCompletion,
    LoneCandidateCompletion }

KnownCompletions(g) == { s \in KnownGrids : ValidGrid(s) /\ Extends(s, g) }

\* inputs with at most this many empty cells have their completions enumerated
EnumLimit == Cardinality(HoleCells) + 1

\* g has a valid completion: shown by a known one, refuted by a dead cell,
\* decided by enumeration otherwise
Completable(g) ==
  CASE KnownCompletions(g) # {} -> TRUE
    [] DeadCell(g) -> FALSE
    [] OTHER -> AllCompletions(Norm(g)) # {}

(* ---- claims ---- *)

\* C1: for an input whose given digits repeat in no row, column or block, a
\* reported success leaves in the caller's grid a digit 1..9 in every cell,
\* each row, column and block holding each digit exactly once
C1_Validity ==
  (pc = "done" /\ WellFormed(given)) => ValidGrid(inputMatrix)

\* a well-formed input with empty cells was solved by placements
C1_Witness ==
  /\ pc = "done"
  /\ WellFormed(given)
  /\ EmptyCells(given) # {}
  /\ nPlace > 0
  /\ ValidGrid(inputMatrix)

\* C2: for a well-formed input, success is reported if and only if the givens
\* have a valid completion, and Unsolvable only if they have none
C2_Completeness ==
  (Finished /\ WellFormed(given)) => ((pc = "done") <=> Completable(given))

\* the all-zero grid was solved
C2_WitnessSolved == pc = "done" /\ given = EmptyGrid

\* C3: every cell given a digit 1..9 keeps it: neither solving phase writes
\* to a given cell and a reported success returns it unchanged
C3_Consistency ==
  /\ pc \notin { "construct", "idle", "placed", "unplaced" }
       => Extends(problemMatrix, given)
  /\ pc = "done" => Extends(inputMatrix, given)

\* a success after both phases wrote next to given cells
C3_Witness ==
  /\ pc = "done"
  /\ nPlace > 0
  /\ \E c \in Cells : given[c[1]][c[2]] \in Digits
  /\ Extends(inputMatrix, given)

\* the cells of g read row after row, and read column after column
RowMajorKey(g) == [n \in 1 .. (NUM * NUM) |-> g[(n - 1) \div NUM][(n - 1) % NUM]]
ColMajorKey(g) == [n \in 1 .. (NUM * NUM) |-> g[(n - 1) % NUM][(n - 1) \div NUM]]

\* a comes before b in lexicographic order
LexLess(a, b) ==
  \E n \in 1 .. (NUM * NUM) :
    a[n] < b[n] /\ \A m \in 1 .. (n - 1) : a[m] = b[m]

\* the completions an output is compared with: all of them where they can be
\* enumerated, the known ones otherwise
CompletionsToCompare(g) ==
  IF Cardinality(EmptyCells(g)) <= EnumLimit THEN AllCompletions(Norm(g))
  ELSE KnownCompletions(g)

\* position of a cell in row-major and in column-major order, from 0
RowMajorIndex(c) == (c[1] * NUM) + c[2]
ColMajorIndex(c) == (c[2] * NUM) + c[1]

C5_RepeatIsUnsolvable ==
  (Finished /\ ~WellFormed(given)) => pc = "exited"

\* C6 as stated: assignTag followed by resetTag with the same arguments leaves
\* the three tables as they were, whatever they held
C6_ExactInverse ==
  pc = "unplaced" => Tags = before.tags

\* the tables T with the three flags of (i, j, n) false
ThreeCleared(T, i, j, n) ==
  [tagRow |-> [a \in Idx |-> [b \in Idx |->
                 T.tagRow[a][b] /\ ~(a = i /\ b = n - 1)]],
   tagCol |-> [a \in Idx |-> [b \in Idx |->
                 T.tagCol[a][b] /\ ~(a = n - 1 /\ b = j)]],
   tagBlk |-> [a \in Idx |-> [b \in Idx |->
                 T.tagBlk[a][b] /\ ~(a = BlockOf(i, j) /\ b = n - 1)]]]

\* C6 amended: assignTag followed by resetTag with the same arguments leaves
\* the three flags of (i, j, n) false and every other flag as it was, so the
\* tables are as before exactly when none of the three flags was set, that
\* is when checkValid (i, j, n) held before the pair
C6_InverseWhenLegal ==
  pc = "unplaced" =>
    /\ Tags = ThreeCleared(before.tags, before.i, before.j, before.n)
    /\ (Tags = before.tags)
         <=> checkValidIn(before.tags, before.i, before.j, before.n)

\* a pair made on tables holding flags, none of them one of the three
C6_Witness ==
  /\ pc = "unplaced"
  /\ before.tags # initTag
  /\ checkValidIn(before.tags, before.i, before.j, before.n)
  /\ Tags = before.tags

C8_Termination ==
  /\ <>Finished
  /\ [](/\ (pc = "logical" /\ scan.phase = "test" /\ flagValueSet)
             => nPlace > iterBase
        /\ pc = "logical"
             => Cardinality(EmptyCells(problemMatrix)) + nPlace
                  = Cardinality(EmptyCells(given)))

\* the single-clue input ended in success after placements and removals
C8_Witness ==
  /\ pc = "done"
  /\ given = SingleClue
  /\ nPlace > 0
  /\ nRemove > 0

\* C9: a fully and validly filled input is reported solved and returned cell
\* for cell, without any placement or removal
C9_AlreadySolved ==
  ValidGrid(given) =>
    /\ nPlace = 0 /\ nRemove = 0
    /\ pc # "exited"
    /\ pc # "construct" => problemMatrix = given
    /\ inputMatrix = given

\* a valid full grid went through the constructor
C9_Witness ==
  /\ pc = "done"
  /\ ValidGrid(given)
  /\ inputMatrix = given

\* the tag tables that hold exactly the digits of g
TagsOf(g) ==
  [tagRow |-> [i \in Idx |-> [n \in Idx |-> \E j \in Idx : g[i][j] = n + 1]],
   tagCol |-> [n \in Idx |-> [j \in Idx |-> \E i \in Idx : g[i][j] = n + 1]],
   tagBlk |-> [b \in Idx |-> [n \in Idx |->
                 \E c \in Cells : BlockOf(c[1], c[2]) = b
                                   /\ g[c[1]][c[2]] = n + 1]]]

ColMajorLeastOf(A) ==
  CHOOSE s \in A : \A t \in A : ~LexLess(ColMajorKey(t), ColMajorKey(s))

\* what the constructor is to end with on the grid g
ExpectedOutcome(g) ==
  LET A == AllCompletions(g) IN
    IF A = {} THEN [solved |-> FALSE, grid |-> EmptyGrid]
    ELSE [solved |-> TRUE, grid |-> ColMajorLeastOf(A)]

Outcome ==
  IF pc = "done" THEN [solved |-> TRUE, grid |-> inputMatrix]
  ELSE [solved |-> FALSE, grid |-> EmptyGrid]

\* C10: a cell whose value is outside 1..9 is read as empty: the matrix the
\* solver starts from is the input with such cells at 0, the tags set are
\* those of the digits 1..9 given and no other, and the constructor ends as
\* it is to end on the input with such cells replaced by 0
C10_Normalized ==
  /\ pc = "fillTags" => problemMatrix = Norm(given)
  /\ (pc = "logical" /\ nPlace = 0) =>
       (problemMatrix = Norm(given) /\ Tags = TagsOf(Norm(given)))
  /\ (Finished /\ WellFormed(given)
        /\ Cardinality(EmptyCells(given)) <= EnumLimit) =>
       Outcome = ExpectedOutcome(Norm(given))

\* an input with the value 10 in six cells ended as the input with 0 there
C10_Witness ==
  /\ pc = "done"
  /\ given = Punch(Solved, PatternCells, 10)
  /\ inputMatrix = SolvedAlt
  /\ Outcome = ExpectedOutcome(Punch(Solved, PatternCells, 0))

\* C11: a second solve of the same input, started on the fields as the first
\* solve left them, makes the placements and removals of the first in the
\* same order and ends as the first did: same outcome, same grid in the
\* caller's array, same output on cerr and same exit status
C11_Determinism ==
  run = 2 =>
    /\ Len(trace) <= Len(first.trace)
    /\ trace = SubSeq(first.trace, 1, Len(trace))
    /\ Finished => Ending = first

\* the six-hole input was solved a second time over the solved matrix of the
\* first solve, with the same placements and removals and the same grid
C11_Witness ==
  /\ run = 2
  /\ pc = "done"
  /\ given = Punch(Solved, PatternCells, 0)
  /\ nRemove > 0
  /\ Len(trace) > nPlace
  /\ Ending = first

\* the two solving phases are running: solveLogical or solveBacktrack
Solving == pc \in { "logical", "call", "loop", "ret" }

\* the three flags of the digit that cell c holds are all set
Covered(c) ==
  LET n == problemMatrix[c[1]][c[2]] - 1 IN
    /\ tagRow[c[1]][n]
    /\ tagCol[n][c[2]]
    /\ tagBlk[BlockOf(c[1], c[2])][n]

\* none of the three flags of the digit that cell c holds is set
Uncovered(c) ==
  LET n == problemMatrix[c[1]][c[2]] - 1 IN
    /\ ~tagRow[c[1]][n]
    /\ ~tagCol[n][c[2]]
    /\ ~tagBlk[BlockOf(c[1], c[2])][n]

FilledCells == { c \in Cells : problemMatrix[c[1]][c[2]] > 0 }

\* C12 as stated: for a well-formed input, in every state of the two solving
\* phases every filled cell has the row, column and block flag of its digit
\* set, the states between the removal of a failed digit and the trial of
\* the next one included
C12_Coverage ==
  Solving => ((\A c \in FilledCells : Covered(c)) \/ ~WellFormed(given))

\* the innermost call is between its resetTag of line 307 and its next write
\* to the cell (line 302 or line 311): the cell still holds the failed digit
StaleCells ==
  IF pc = "loop" /\ problemMatrix[TopCell[1]][TopCell[2]] > 0
    THEN { TopCell } ELSE {}

\* C12 amended: for a well-formed input, in every state of the two solving
\* phases every filled cell has the three flags of its digit set, except the
\* cell of the innermost call after the removal of a failed digit: resetTag
\* clears the three flags and the cell keeps the failed digit, with none of
\* the three flags set, until the next digit is written or the cell is reset
\* at the dead end
C12_CoverageButStale ==
  Solving =>
    \/ /\ \A c \in FilledCells \ StaleCells : Covered(c)
       /\ \A c \in StaleCells : Uncovered(c)
    \/ ~WellFormed(given)

\* after a removal the cell of the innermost call holds the failed digit with
\* its flags cleared, every other filled cell being covered
C12_Witness ==
  /\ pc = "loop"
  /\ nRemove > 0
  /\ StaleCells = { TopCell }
  /\ Uncovered(TopCell)
  /\ \A c \in FilledCells \ StaleCells : Covered(c)
  /\ WellFormed(given)

\* no two filled cells of one row, one column or one block of g hold the
\* same digit
NoDuplicate(g) ==
  \A a \in Cells :
    \/ g[a[1]][a[2]] = 0
    \/ \A b \in Cells : g[b[1]][b[2]] # g[a[1]][a[2]] \/ ~Peers(a, b)

\* a step of a solving phase that writes a digit to cell c of the matrix
Writes(c) ==
  /\ Solving
  /\ problemMatrix'[c[1]][c[2]] # problemMatrix[c[1]][c[2]]
  /\ problemMatrix'[c[1]][c[2]] > 0

\* C13: for a well-formed input, in every state of solveLogical and of
\* solveBacktrack no two filled cells of the same row, column or block hold
\* the same digit, and every digit either phase writes to the matrix passed
\* checkValid on the tags as they were when it was written. The matrix is
\* looked at when solveLogical is entered and after every step that changes
\* it; the other steps leave it as it was
C13_NoDuplicate ==
  [][/\ ((Solving' /\ (~Solving \/ problemMatrix' # problemMatrix))
           => (NoDuplicate(problemMatrix') \/ ~WellFormed(given)))
     /\ \A c \in Cells :
          Writes(c) => checkValid(c[1], c[2], problemMatrix'[c[1]][c[2]])]_vars

\* both phases have written digits to the matrix, which holds no digit twice
\* in a row, a column or a block
C13_Witness ==
  /\ pc = "call"
  /\ iterBase > 0
  /\ nPlace > iterBase
  /\ NoDuplicate(problemMatrix)
  /\ WellFormed(given)

\* solveLogical has made its last test and returns
PassOver == pc = "logical" /\ scan.phase = "test" /\ ~flagValueSet

\* the inputs whose completions are enumerated for the pass
PassEnumerable(g) == Cardinality(EmptyCells(g)) <= EnumLimit \/ g = Stalled

\* C14: for a well-formed input, every digit solveLogical wrote is the digit
\* of its cell in every valid completion of the input, so the matrix the
\* pass leaves has the completions the input has, and solveBacktrack
\* neither removes nor changes a digit the pass wrote
C14_Forced ==
  /\ PassOver =>
       \/ /\ \A s \in KnownCompletions(given) : Extends(s, problemMatrix)
          /\ PassEnumerable(given) =>
               LET A == AllCompletions(Norm(given)) IN
                 /\ \A s \in A : Extends(s, problemMatrix)
                 /\ AllCompletions(problemMatrix) = A
       \/ ~WellFormed(given)
  /\ pc \in { "call", "loop", "ret", "done", "exited" } =>
       Extends(problemMatrix, passGrid)

\* the pass filled ten cells of an input with four completions and the
\* search is at work on the cells it left empty
C14_Witness ==
  /\ given = Stalled
  /\ pc = "loop"
  /\ Cardinality(EmptyCells(passGrid)) + 10 = Cardinality(EmptyCells(given))
  /\ nPlace > iterBase
  /\ Extends(problemMatrix, passGrid)
  /\ Cardinality(AllCompletions(Norm(given))) = 4

\* the rows, the columns and the blocks, each as the set of its cells
Groups ==
  { { c \in Cells : c[1] = i } : i \in Idx }
    \cup { { c \in Cells : c[2] = i } : i \in Idx }
    \cup { { c \in Cells : BlockOf(c[1], c[2]) = i } : i \in Idx }

\* the empty cells of group G that checkValid accepts digit d for
Accepting(G, d) ==
  { c \in G : problemMatrix[c[1]][c[2]] = 0 /\ checkValid(c[1], c[2], d) }

\* C15 as stated: when solveLogical returns there is no block, no column and
\* no row, and no digit 1..9, such that exactly one empty cell of the group
\* accepts the digit
C15_Fixpoint ==
  PassOver =>
    \A G \in Groups, d \in Digits : Cardinality(Accepting(G, d)) # 1

\* the digits that checkValid accepts for cell c
Candidates(c) == { d \in Digits : checkValid(c[1], c[2], d) }

\* the empty cells that accept exactly one digit
LoneCells ==
  { c \in Cells : problemMatrix[c[1]][c[2]] = 0
                    /\ Cardinality(Candidates(c)) = 1 }

BlockGroups == { { c \in Cells : BlockOf(c[1], c[2]) = i } : i \in Idx }

ReturnedFailure == Recording /\ pc = "ret" /\ ~retval

\* C17: for a well-formed input, whenever a call of solveBacktrack returns
\* failure, the matrix and the three tag tables are as they were when that
\* call was entered
C17_FailureRestores ==
  ReturnedFailure => (Snapshot = left \/ ~WellFormed(given))

\* a call that had written digits to its cell and taken them back returned
\* failure to a caller, the matrix and the tables being as at its entry
C17_Witness ==
  /\ ReturnedFailure
  /\ stack # << >>
  /\ nRemove > 0
  /\ trace[Len(trace)][1] = "empty"
  /\ trace[Len(trace)][4] > 0
  /\ Snapshot = left
  /\ WellFormed(given)

\* no filled cell other than c in the row, the column or the block of c
\* holds digit d
NoPeerHolds(c, d) ==
  \A b \in Cells : problemMatrix[b[1]][b[2]] # d \/ ~Peers(c, b)

\* the cells the scan step about to be taken runs over
ScannedCells ==
  IF pc # "logical" THEN {}
  ELSE IF scan.phase = "blk"
    THEN { BlockCellSeq(scan.k)[n] : n \in 1 .. NUM }
  ELSE IF scan.phase = "line"
    THEN { LineCellSeq(scan.k)[n] : n \in 1 .. NUM }
  ELSE IF scan.phase = "cross"
    THEN { CrossCellSeq(scan.k)[n] : n \in 1 .. NUM }
  ELSE {}

\* the calls checkValid (r, c, d) the step about to be taken may make, as
\* << r, c, d >>: a scan step asks for its digit in the empty cells of its
\* group, a step of the loop of solveBacktrack for val in the cell of the call
ChecksAhead ==
  { << c[1], c[2], scan.l >> :
      c \in { e \in ScannedCells : problemMatrix[e[1]][e[2]] = 0 } }
    \cup (IF pc = "loop" /\ Top.val <= NUM
            THEN { << TopCell[1], TopCell[2], Top.val >> } ELSE {})

\* checkValid answers as the matrix does for each of these calls
ChecksAgree ==
  \A q \in ChecksAhead :
    checkValid(q[1], q[2], q[3]) <=> NoPeerHolds(<< q[1], q[2] >>, q[3])

\* a step that made calls of checkValid and no assignment: a scan step that
\* commits nothing, or a digit refused in the loop of solveBacktrack
OnlyChecks ==
  \/ pc = "logical" /\ scan.phase # "test" /\ nPlace' = nPlace
  \/ /\ pc = "loop" /\ Top.val <= NUM
     /\ ~checkValid(TopCell[1], TopCell[2], Top.val)

\* C18: for a well-formed input, every call of checkValid (r, c, d) that
\* solveLogical makes on an empty cell, and that solveBacktrack makes on an
\* empty cell or on a cell still holding the digit that failed, returns true
\* if and only if no other filled cell of row r, of column c or of the block
\* of (r, c) holds d; the calls change neither the matrix nor the tables
C18_TrackerAgrees ==
  [][/\ ChecksAgree \/ ~WellFormed(given)
     /\ OnlyChecks => UNCHANGED << problemMatrix, tagRow, tagCol, tagBlk >>]_vars

\* after a removal the cell of the call still holds the failed digit and the
\* next digit is about to be checked: checkValid and the matrix both accept it
C18_Witness ==
  /\ pc = "loop"
  /\ Top.val <= NUM
  /\ nRemove > 0
  /\ problemMatrix[TopCell[1]][TopCell[2]] > 0
  /\ checkValid(TopCell[1], TopCell[2], Top.val)
  /\ NoPeerHolds(TopCell, Top.val)
  /\ WellFormed(given)

====
